---- MODULE Spec2Model ----
(***************************************************************************)
(* Model of the SSPI negotiation engine of src/win32/kerberos_sspi.cc:     *)
(* the client and server context structures, their init / step / wrap /    *)
(* unwrap / clean handlers, the token codec and the result constructors.   *)
(* The security provider (SSPI) and the allocator are the environment:     *)
(* every outcome they can produce is drawn nondeterministically.           *)
(***************************************************************************)
EXTENDS Integers, Sequences, FiniteSets, TLC

(***************************************************************************)
(* Bounds of the model.                                                    *)
(***************************************************************************)
\* most provider objects of one kind a client context may have outstanding
MaxLive == 2

(***************************************************************************)
(* Pointers.  A C pointer is either NULL or the buffer it points to.       *)
(***************************************************************************)
NULL == [null |-> TRUE, val |-> <<>>]
Ptr(v) == [null |-> FALSE, val |-> v]

(***************************************************************************)
(* Token codec.  Raw tokens are sequences of bytes 0..255.  Text is a      *)
(* sequence of characters: 0..63 are the base64 digits (by value), PadChar *)
(* is '=' and BadChar is a character outside the base64 alphabet.          *)
(***************************************************************************)
PadChar == 64
BadChar == 65

\* one group of up to three bytes -> four characters
EncodeGroup(g) ==
    LET b1 == g[1]
        b2 == IF Len(g) >= 2 THEN g[2] ELSE 0
        b3 == IF Len(g) >= 3 THEN g[3] ELSE 0
        n  == b1 * 65536 + b2 * 256 + b3
    IN  << n \div 262144,
           (n \div 4096) % 64,
           IF Len(g) >= 2 THEN (n \div 64) % 64 ELSE PadChar,
           IF Len(g) >= 3 THEN n % 64 ELSE PadChar >>

RECURSIVE BinaryToString(_)
BinaryToString(v) ==
    IF Len(v) = 0 THEN <<>>
    ELSE IF Len(v) <= 3 THEN EncodeGroup(v)
    ELSE EncodeGroup(SubSeq(v, 1, 3)) \o BinaryToString(SubSeq(v, 4, Len(v)))

\* four characters -> up to three bytes; the group is well formed when the
\* padding, if any, is at its end
GroupOK(q, last) ==
    /\ q[1] \in 0..63 /\ q[2] \in 0..63
    /\ q[3] \in 0..63 \/ (last /\ q[3] = PadChar /\ q[4] = PadChar)
    /\ q[4] \in 0..63 \/ (last /\ q[4] = PadChar)

DecodeGroup(q) ==
    LET c3 == IF q[3] = PadChar THEN 0 ELSE q[3]
        c4 == IF q[4] = PadChar THEN 0 ELSE q[4]
        n  == q[1] * 262144 + q[2] * 4096 + c3 * 64 + c4
        b  == << n \div 65536, (n \div 256) % 256, n % 256 >>
    IN  IF q[3] = PadChar THEN SubSeq(b, 1, 1)
        ELSE IF q[4] = PadChar THEN SubSeq(b, 1, 2)
        ELSE b

RECURSIVE StringOK(_)
StringOK(t) ==
    IF Len(t) = 0 THEN TRUE
    ELSE /\ Len(t) >= 4
         /\ GroupOK(SubSeq(t, 1, 4), Len(t) = 4)
         /\ StringOK(SubSeq(t, 5, Len(t)))

RECURSIVE StringToBinary(_)
StringToBinary(t) ==
    IF Len(t) = 0 THEN <<>>
    ELSE DecodeGroup(SubSeq(t, 1, 4)) \o StringToBinary(SubSeq(t, 5, Len(t)))

\* base64_encode: NULL when the size query, the allocation or the encoding
\* fails (ok = FALSE), else the text of the value
base64_encode(value, ok) ==
    IF ok THEN Ptr(BinaryToString(value)) ELSE NULL

\* base64_decode: NULL when the text is absent or malformed or when the
\* allocation fails (ok = FALSE), else the bytes
base64_decode(value, ok) ==
    IF value.null \/ ~StringOK(value.val) \/ ~ok THEN NULL
    ELSE Ptr(StringToBinary(value.val))

\* wide_to_utf8: code points below 0x80 take one byte, below 0x800 two;
\* NULL when the allocation or the conversion fails (ok = FALSE)
RECURSIVE WideToMultiByte(_)
WideToMultiByte(w) ==
    IF Len(w) = 0 THEN <<>>
    ELSE (IF w[1] < 128 THEN << w[1] >>
          ELSE << 192 + (w[1] \div 64), 128 + (w[1] % 64) >>)
         \o WideToMultiByte(Tail(w))

wide_to_utf8(value, ok) ==
    IF ok THEN Ptr(WideToMultiByte(value)) ELSE NULL

(***************************************************************************)
(* Data the environment and the caller draw from.                          *)
(***************************************************************************)
\* raw tokens the provider hands out: none, or some bytes
SomeToken == << 253, 80 >>
RawTokens == {<<>>, SomeToken}

\* principal names the provider reports, in wide characters (the second
\* one mixes ASCII and non-ASCII)
Names == {<<>>, << 97, 233 >>}

\* text handed in by the caller as a challenge or as data: absent, empty,
\* well-formed base64, and two malformed texts (a character outside the
\* alphabet; a length that is no multiple of four)
GoodTexts == {Ptr(BinaryToString(SomeToken))}
BadTexts == {Ptr(<<BadChar, 1, 2, 3>>), Ptr(<<1, 2, 3>>)}
Texts == {NULL, Ptr(<<>>)} \cup GoodTexts \cup BadTexts

\* strings handed to init and wrap: empty or not
Strs == {<<>>, <<97>>}

\* 0x80000001, as the 32-bit two's complement integer it is stored as
SECQOP_WRAP_NO_ENCRYPT == -2147483647
Qops == {0, SECQOP_WRAP_NO_ENCRYPT}
FlagSet == {2}

(***************************************************************************)
(* Results (sspi_result).                                                  *)
(***************************************************************************)
AUTH_GSS_COMPLETE == "COMPLETE"
AUTH_GSS_CONTINUE == "CONTINUE"
AUTH_GSS_ERROR == "ERROR"

NoMessage == [null |-> TRUE, text |-> ""]
Message(m) == [null |-> FALSE, text |-> m]

sspi_success_result(ret) == [code |-> ret, message |-> NoMessage]
sspi_error_result(msg) == [code |-> AUTH_GSS_ERROR, message |-> Message(msg)]
sspi_error_result_with_message(message) ==
    [code |-> AUTH_GSS_ERROR, message |-> Message(message)]

\* what a caller can find behind a result pointer that was never assigned
GarbageResults ==
    { sspi_success_result(AUTH_GSS_COMPLETE),
      sspi_success_result(AUTH_GSS_CONTINUE),
      sspi_error_result_with_message("?"),
      [code |-> "INVALID", message |-> NoMessage] }

(***************************************************************************)
(* Provider calls.  Every SSPI call a handler makes is logged with: fn,    *)
(* the function; a, its distinguishing argument (an existing context is    *)
(* passed to Initialize/AcceptSecurityContext, an explicit identity to     *)
(* AcquireCredentialsHandle, confidentiality to EncryptMessage); r, the    *)
(* status it returned; the context's complete flag, principal and qop at   *)
(* the moment of the call; rsp, whether the context holds a response at    *)
(* that moment; and io, the buffers of a message protection call           *)
(* (plaintext, then trailer, data and padding as the provider left them)   *)
(* or the identity handed to a credential acquisition.                     *)
(***************************************************************************)
Call(fn, a, r, st, qop) ==
    [fn |-> fn, a |-> a, r |-> r,
     cplt |-> st.context_complete, usr |-> ~st.username.null, qop |-> qop,
     rsp |-> ~st.response.null, io |-> <<>>]

\* outcome of a handler: the structure afterwards, the result returned, the
\* provider calls and the buffer releases made (in order), whether the
\* provider created a security context / credential object, whether the
\* calling thread is left impersonating, and got, the buffers the handler
\* obtained for its own use (from the allocator or from the provider)
Outcome(st, res, calls, frees, newCtx, newCred, imp) ==
    [st |-> st, res |-> res, calls |-> calls, frees |-> frees,
     newCtx |-> newCtx, newCred |-> newCred, imp |-> imp, got |-> <<>>]

Got(o, bufs) == [o EXCEPT !.got = bufs]

\* auth_sspi_*_clean return nothing
Void == [code |-> "VOID", message |-> NoMessage]

(***************************************************************************)
(* Client context (sspi_client_state).                                     *)
(***************************************************************************)
\* sspi_client_state_new sets spn, response, username, responseConf and
\* context_complete; haveCtx, haveCred, qop and flags are whatever malloc
\* returned
NewClientStates ==
    { [haveCtx |-> hx, haveCred |-> hc, spn |-> NULL, response |-> NULL,
       username |-> NULL, responseConf |-> 0, context_complete |-> FALSE,
       qop |-> q, flags |-> f] :
      hx \in BOOLEAN, hc \in BOOLEAN, q \in Qops, f \in {0} \cup FlagSet }

\* the new client structure whose unset fields happen to be zero
NewClientZero ==
    [haveCtx |-> FALSE, haveCred |-> FALSE, spn |-> NULL, response |-> NULL,
     username |-> NULL, responseConf |-> 0, context_complete |-> FALSE,
     qop |-> 0, flags |-> 0]

\* (mutant) the security context is deleted and its flag left set
ClientDropCtx_Keep(st) == st

\* lines 35-38 and 39-42: the handle is released and its flag reset
ClientDropCtx(st) == [st EXCEPT !.haveCtx = FALSE]
ClientDropCred(st) == [st EXCEPT !.haveCred = FALSE]

auth_sspi_client_clean(st) ==
    LET s1 == IF st.haveCtx THEN ClientDropCtx(st) ELSE st
        s2 == IF s1.haveCred THEN ClientDropCred(s1) ELSE s1
        s3 == [s2 EXCEPT !.spn = NULL, !.response = NULL, !.username = NULL]
        calls ==
            (IF st.haveCtx
             THEN << Call("DeleteSecurityContext", TRUE, "ok", st, st.qop) >>
             ELSE <<>>)
            \o (IF s1.haveCred
                THEN << Call("FreeCredentialsHandle", TRUE, "ok", s1, s1.qop) >>
                ELSE <<>>)
        frees ==
            (IF ~st.spn.null THEN << "spn" >> ELSE <<>>)
            \o (IF ~st.response.null THEN << "response" >> ELSE <<>>)
            \o (IF ~st.username.null THEN << "username" >> ELSE <<>>)
    IN  Outcome(s3, Void, calls, frees, FALSE, FALSE, FALSE)

\* what a field of the identity structure can hold when it was not assigned
JunkFields == {NULL, Ptr(<< 255 >>)}

\* what the allocator and the provider can answer during client init, and
\* (junk) what the unassigned fields of authIdentity happen to hold
ClientInitEnvs ==
    { [dup |-> FALSE, status |-> "fail", junk |-> NULL] }
    \cup { [dup |-> TRUE, status |-> s, junk |-> j] :
            s \in {"ok", "fail"}, j \in JunkFields }

\* lines 107-122: User is assigned when there is a user; Password and Domain
\* are assigned only when they are not empty, and the structure is not
\* cleared first
AuthIdentity(user, domain, password, junk) ==
    [User |-> Ptr(user),
     Password |-> IF Len(password) > 0 THEN Ptr(password) ELSE junk,
     Domain |-> IF Len(domain) > 0 THEN Ptr(domain) ELSE junk]

\* line 137: *user ? &authIdentity : NULL
AuthData(user, domain, password, junk) ==
    IF Len(user) > 0 THEN Ptr(AuthIdentity(user, domain, password, junk))
    ELSE NULL

\* lines 96-102: the structure is (re)initialised without releasing anything
ClientInitReset(st, service, flags, env) ==
    [st EXCEPT !.response = NULL, !.username = NULL,
               !.qop = SECQOP_WRAP_NO_ENCRYPT, !.flags = flags,
               !.haveCred = FALSE, !.haveCtx = FALSE,
               !.spn = IF env.dup THEN Ptr(service) ELSE NULL]

\* line 150
ClientInitAcquired(st) == [st EXCEPT !.haveCred = TRUE]

auth_sspi_client_init(st, service, flags, user, domain, password, env) ==
    LET s1 == ClientInitReset(st, service, flags, env)
        acq == [Call("AcquireCredentialsHandleW", Len(user) > 0, env.status,
                     s1, s1.qop)
                  EXCEPT !.io = << AuthData(user, domain, password,
                                            env.junk) >>]
    IN  IF s1.spn.null
        THEN Outcome(s1,
                 sspi_error_result_with_message(
                     "Ran out of memory assigning service"),
                 <<>>, <<>>, FALSE, FALSE, FALSE)
        ELSE IF env.status # "ok"
        THEN Outcome(s1, sspi_error_result("AcquireCredentialsHandle"),
                 << acq >>, <<>>, FALSE, FALSE, FALSE)
        ELSE Outcome(ClientInitAcquired(s1),
                 sspi_success_result(AUTH_GSS_COMPLETE),
                 << acq >>, <<>>, FALSE, TRUE, FALSE)

(***************************************************************************)
(* Server context (sspi_server_state).  ctx and cred are TRUE when the     *)
(* handle is valid (SecIsValidHandle).                                     *)
(***************************************************************************)
NewServerState ==
    [ctx |-> FALSE, cred |-> FALSE, response |-> NULL, username |-> NULL,
     context_complete |-> FALSE, targetname |-> NULL]

\* (mutant) the security context is deleted and its handle left valid
ServerDropCtx_Keep(st) == st

\* lines 59-62 / 310-313 / 434-437 and 63-66: delete and invalidate
ServerDropCtx(st) == [st EXCEPT !.ctx = FALSE]
ServerDropCred(st) == [st EXCEPT !.cred = FALSE]

auth_sspi_server_clean(st) ==
    LET s1 == IF st.ctx THEN ServerDropCtx(st) ELSE st
        s2 == IF s1.cred THEN ServerDropCred(s1) ELSE s1
        s3 == [s2 EXCEPT !.response = NULL, !.username = NULL,
                         !.targetname = NULL]
        calls ==
            (IF st.ctx
             THEN << Call("DeleteSecurityContext", TRUE, "ok", st, 0) >>
             ELSE <<>>)
            \o (IF s1.cred
                THEN << Call("FreeCredentialsHandle", TRUE, "ok", s1, 0) >>
                ELSE <<>>)
        frees ==
            (IF ~st.response.null THEN << "response" >> ELSE <<>>)
            \o (IF ~st.username.null THEN << "username" >> ELSE <<>>)
            \o (IF ~st.targetname.null THEN << "targetname" >> ELSE <<>>)
    IN  Outcome(s3, Void, calls, frees, FALSE, FALSE, FALSE)

ServerInitEnvs == { [status |-> s] : s \in {"ok", "fail"} }

\* (mutant) init acquires without tearing the context down
ServerInitClean_Skip(st) ==
    Outcome(st, Void, <<>>, <<>>, FALSE, FALSE, FALSE)

\* line 157: init starts by tearing the context down
ServerInitClean(st) == auth_sspi_server_clean(st)

\* AcquireCredentialsHandleW writes the handle only when it succeeds
ServerInitAcquired(st) == [st EXCEPT !.cred = TRUE]

auth_sspi_server_init(st, service, env) ==
    LET c == ServerInitClean(st)
        acq == Call("AcquireCredentialsHandleW", FALSE, env.status, c.st, 0)
    IN  IF env.status # "ok"
        THEN Outcome(c.st, sspi_error_result("AcquireCredentialsHandle"),
                 c.calls \o << acq >>, c.frees, FALSE, FALSE, FALSE)
        ELSE Outcome(ServerInitAcquired(c.st),
                 sspi_success_result(AUTH_GSS_COMPLETE),
                 c.calls \o << acq >>, c.frees, FALSE, TRUE, FALSE)

(***************************************************************************)
(* auth_sspi_client_step.                                                  *)
(***************************************************************************)
\* what the allocator and the provider can answer during a client step:
\* dec, the decode buffer is obtained; status and tok, the answer and output
\* token of InitializeSecurityContextW; enc, the token is encoded; nstatus
\* and name, the answer of QueryContextAttributesW(SECPKG_ATTR_NAMES); utf8,
\* the name is converted; garbage, the content of an unassigned result
StepEnv(dec, status, tok, enc, nstatus, name, utf8, garbage) ==
    [dec |-> dec, status |-> status, tok |-> tok, enc |-> enc,
     nstatus |-> nstatus, name |-> name, utf8 |-> utf8, garbage |-> garbage]

NoGarbage == sspi_error_result_with_message("?")

ClientStepEnvs ==
    { StepEnv(FALSE, "fail", <<>>, TRUE, "fail", <<>>, TRUE, NoGarbage),
      StepEnv(TRUE, "fail", <<>>, TRUE, "fail", <<>>, TRUE, NoGarbage) }
    \cup { StepEnv(TRUE, s, SomeToken, FALSE, "fail", <<>>, TRUE, g) :
           s \in {"ok", "continue"}, g \in GarbageResults }
    \cup { StepEnv(TRUE, "continue", t, TRUE, "fail", <<>>, TRUE, NoGarbage) :
           t \in RawTokens }
    \cup { StepEnv(TRUE, "ok", t, TRUE, "fail", <<>>, TRUE, NoGarbage) :
           t \in RawTokens }
    \cup { StepEnv(TRUE, "ok", t, TRUE, "ok", <<>>, FALSE, NoGarbage) :
           t \in RawTokens }
    \cup { StepEnv(TRUE, "ok", t, TRUE, "ok", n, TRUE, NoGarbage) :
           t \in RawTokens, n \in Names }

\* (mutant) a failed decode goes unnoticed
DecodeFailed_Never(buf) == FALSE

\* lines 209, 332, 472 and 543: the decode returned no buffer
DecodeFailed(buf) == buf.null

\* (mutant) the old response is kept
ClearResponse_Keep(st) == st

\* lines 188-191 (also 461-463, 524-527 and 322-325): drop the old response
ClearResponse(st) == [st EXCEPT !.response = NULL]

\* (mutant) the new security context is not recorded
ClientStepMark_NoCtx(st) == [st EXCEPT !.context_complete = TRUE]

\* lines 254-255: after an ok or continue answer of the provider
ClientStepMark(st) == [st EXCEPT !.haveCtx = TRUE, !.context_complete = TRUE]

\* lines 205-215: the challenge is decoded only when a context exists
ClientStepDecodes(st) == st.haveCtx

\* (mutant) the status of the provider is not looked at
InitiateFailed_Never(status) == FALSE

\* line 249: the status is neither SEC_E_OK nor SEC_I_CONTINUE_NEEDED
InitiateFailed(status) == status # "ok" /\ status # "continue"

\* (the channel bindings only add an input buffer to the provider call, whose
\* answer is drawn from every outcome anyway; they are not a parameter here)
auth_sspi_client_step(st, challenge, env) ==
    LET f0 == IF ~st.response.null THEN << "response" >> ELSE <<>>
        s1 == ClearResponse(st)
        haveToken == ClientStepDecodes(s1)
        inbuf == IF haveToken THEN base64_decode(challenge, env.dec) ELSE NULL
        isc == Call("InitializeSecurityContextW", s1.haveCtx, env.status,
                    s1, s1.qop)
        \* the provider allocates the output buffer when it has a token
        outPv == env.status # "fail" /\ Len(env.tok) > 0
        done == (IF haveToken THEN << "challenge" >> ELSE <<>>)
                \o (IF outPv THEN << "outbuf" >> ELSE <<>>)
        \* the decoded challenge and the provider's output buffer
        bufs == (IF haveToken /\ ~inbuf.null THEN << "challenge" >> ELSE <<>>)
                \o (IF outPv THEN << "outbuf" >> ELSE <<>>)
        newCtx == ~s1.haveCtx /\ env.status # "fail"
        s2 == ClientStepMark(s1)
        resp == IF Len(env.tok) > 0 THEN base64_encode(env.tok, env.enc)
                ELSE NULL
        s3 == [s2 EXCEPT !.response = resp]
        qca == Call("QueryContextAttributesW", TRUE, env.nstatus, s3, s3.qop)
        uname == wide_to_utf8(env.name, env.utf8)
        s4 == [s3 EXCEPT !.username = uname]
    IN  IF haveToken /\ DecodeFailed(inbuf)
        THEN Outcome(s1,
                 sspi_error_result_with_message(
                     "Unable to base64 decode pvBuffer"),
                 <<>>, f0, FALSE, FALSE, FALSE)
        ELSE IF InitiateFailed(env.status)
        THEN Got(Outcome(s1, sspi_error_result("InitializeSecurityContext"),
                     << isc >>, f0 \o done, FALSE, FALSE, FALSE), bufs)
        ELSE IF Len(env.tok) > 0 /\ resp.null
        THEN \* status = AUTH_GSS_ERROR; goto done: result was never assigned
             Got(Outcome(s3, env.garbage, << isc >>, f0 \o done,
                     newCtx, FALSE, FALSE), bufs)
        ELSE IF env.status = "ok"
        THEN IF env.nstatus # "ok"
             THEN Got(Outcome(s3,
                          sspi_error_result("QueryContextAttributesW"),
                          << isc, qca >>, f0 \o done, newCtx, FALSE, FALSE),
                      bufs)
             ELSE IF uname.null
             THEN \* names.sUserName is not released on this path
                  Got(Outcome(s4,
                          sspi_error_result_with_message(
                              "Unable to allocate memory for username"),
                          << isc, qca >>, f0 \o done, newCtx, FALSE, FALSE),
                      << "names" >> \o bufs)
             ELSE Got(Outcome(s4, sspi_success_result(AUTH_GSS_COMPLETE),
                          << isc, qca >>, f0 \o << "names" >> \o done,
                          newCtx, FALSE, FALSE),
                      << "names" >> \o bufs)
        ELSE Got(Outcome(s3, sspi_success_result(AUTH_GSS_CONTINUE),
                     << isc >>, f0 \o done, newCtx, FALSE, FALSE), bufs)

(***************************************************************************)
(* auth_sspi_server_step.                                                  *)
(***************************************************************************)
\* names GetUserName can write into the buffer, and what an unwritten
\* buffer can hold
LocalNames == {<< 97 >>}
JunkNames == {<<>>, <<255>>}

\* what the allocator and the provider can answer during a server step:
\* dec, the decode buffer is obtained; pkg, QuerySecurityPackageInfoW; wild,
\* the unassigned OutSecBuff.pvBuffer happens to be non-null; out, the
\* output buffer is obtained; status and tok, AcceptSecurityContext; enc,
\* the token is encoded; nstatus and name, the native-names query; utf8, the
\* name is converted; imp, ImpersonateSecurityContext; ualloc, the username
\* buffer is obtained; getuser and lname, GetUserName
AcceptEnv(dec, pkg, wild, out, status, tok, enc, nstatus, name, utf8, imp, ualloc, getuser, lname) ==
    [dec |-> dec, pkg |-> pkg, wild |-> wild, out |-> out,
     status |-> status, tok |-> tok, enc |-> enc, nstatus |-> nstatus,
     name |-> name, utf8 |-> utf8, imp |-> imp, ualloc |-> ualloc,
     getuser |-> getuser, lname |-> lname]

ServerStepEnvs ==
    { AcceptEnv(FALSE, "fail", FALSE, TRUE, "fail", <<>>, TRUE, "fail", <<>>,
                TRUE, "fail", TRUE, TRUE, <<>>) }
    \cup { AcceptEnv(TRUE, "fail", w, TRUE, "fail", <<>>, TRUE, "fail", <<>>,
                     TRUE, "fail", TRUE, TRUE, <<>>) : w \in BOOLEAN }
    \cup { AcceptEnv(TRUE, "ok", FALSE, o, "fail", <<>>, TRUE, "fail", <<>>,
                     TRUE, "fail", TRUE, TRUE, <<>>) : o \in BOOLEAN }
    \cup { AcceptEnv(TRUE, "ok", FALSE, TRUE, "continue", SomeToken, FALSE,
                     "fail", <<>>, TRUE, "fail", TRUE, TRUE, <<>>) }
    \cup { AcceptEnv(TRUE, "ok", FALSE, TRUE, "continue", t, TRUE,
                     "fail", <<>>, TRUE, "fail", TRUE, TRUE, <<>>) :
           t \in RawTokens }
    \cup { AcceptEnv(TRUE, "ok", FALSE, TRUE, "ok", <<>>, TRUE,
                     "ok", <<>>, FALSE, "fail", TRUE, TRUE, <<>>) }
    \cup { AcceptEnv(TRUE, "ok", FALSE, TRUE, "ok", <<>>, TRUE,
                     "ok", n, TRUE, "fail", TRUE, TRUE, <<>>) : n \in Names }
    \cup { AcceptEnv(TRUE, "ok", FALSE, TRUE, "ok", <<>>, TRUE,
                     "fail", <<>>, TRUE, "fail", TRUE, TRUE, <<>>) }
    \cup { AcceptEnv(TRUE, "ok", FALSE, TRUE, "ok", <<>>, TRUE,
                     "fail", <<>>, TRUE, "ok", FALSE, TRUE, <<>>) }
    \cup { AcceptEnv(TRUE, "ok", FALSE, TRUE, "ok", <<>>, TRUE,
                     "fail", <<>>, TRUE, "ok", TRUE, FALSE, j) :
           j \in JunkNames }
    \cup { AcceptEnv(TRUE, "ok", FALSE, TRUE, "ok", <<>>, TRUE,
                     "fail", <<>>, TRUE, "ok", TRUE, TRUE, l) :
           l \in LocalNames }

\* (mutant) the reset keeps the security context of the last exchange
ServerStepReset_KeepCtx(st) ==
    IF st.context_complete
    THEN [st EXCEPT !.username = NULL, !.context_complete = FALSE]
    ELSE st

\* lines 309-319: a step on a completed context starts a new request
ServerStepReset(st) ==
    IF st.context_complete
    THEN [(IF st.ctx THEN ServerDropCtx(st) ELSE st)
             EXCEPT !.username = NULL, !.context_complete = FALSE]
    ELSE st

\* (mutant) only the pointer is tested, not the first character
HasChallenge_NullOnly(challenge) == ~challenge.null

\* line 328: there is a challenge
HasChallenge(challenge) == ~challenge.null /\ Len(challenge.val) > 0

\* (mutant) an accepted context is not marked complete
ServerStepMark_Skip(st) == st

\* line 376
ServerStepMark(st) == [st EXCEPT !.context_complete = TRUE]

auth_sspi_server_step(st, challenge, env) ==
    LET reset == st.context_complete
        c0 == IF reset /\ st.ctx
              THEN << Call("DeleteSecurityContext", TRUE, "ok", st, 0) >>
              ELSE <<>>
        f0 == (IF reset /\ ~st.username.null THEN << "username" >> ELSE <<>>)
              \o (IF ~st.response.null THEN << "response" >> ELSE <<>>)
        s1 == ClearResponse(ServerStepReset(st))
        inbuf == base64_decode(challenge, env.dec)
        pkg == Call("QuerySecurityPackageInfoW", FALSE, env.pkg, s1, 0)
        \* end: the decoded challenge and the output buffer are freed
        endIn == << "challenge" >>
        endAll == << "challenge", "outbuf" >>
        asc == Call("AcceptSecurityContext", s1.ctx, env.status, s1, 0)
        c1 == c0 \o << pkg, asc >>
        \* the provider writes the context handle when it answers ok/continue
        s2 == IF env.status # "fail" THEN [s1 EXCEPT !.ctx = TRUE] ELSE s1
        newCtx == ~s1.ctx /\ env.status # "fail"
        \* ss == SEC_E_OK
        s3 == ServerStepMark(s2)
        qca == Call("QueryContextAttributesW", TRUE, env.nstatus, s3, 0)
        uname == wide_to_utf8(env.name, env.utf8)
        isc == Call("ImpersonateSecurityContext", TRUE, env.imp, s3, 0)
        gun1 == Call("GetUserName", FALSE, "fail", s3, 0)
        \* the buffer GetUserName wrote, or left unwritten when it failed
        sName == [s3 EXCEPT !.username = Ptr(env.lname)]
        gun2 == Call("GetUserName", TRUE,
                     IF env.getuser THEN "ok" ELSE "fail", sName, 0)
        rev == Call("RevertSecurityContext", TRUE, "ok", sName, 0)
        \* ss == SEC_I_CONTINUE_NEEDED
        resp == base64_encode(env.tok, env.enc)
        s4 == [s2 EXCEPT !.response = resp]
        \* any other status
        del == Call("DeleteSecurityContext", TRUE, "ok", s2, 0)
        \* the decoded challenge, the package information, the output buffer
        \* and the client name, as far as the step got
        bufs ==
            IF ~HasChallenge(challenge) \/ inbuf.null THEN <<>>
            ELSE << "challenge" >> \o
                 (IF env.pkg # "ok" THEN <<>>
                  ELSE << "pkginfo" >> \o
                       (IF ~env.out THEN <<>>
                        ELSE << "outbuf" >> \o
                             (IF env.status = "ok" /\ env.nstatus = "ok"
                              THEN << "names" >> ELSE <<>>)))
    IN  Got(
        IF ~HasChallenge(challenge)
        THEN Outcome(s1,
                 sspi_error_result_with_message(
                     "No challenge parameter in request from client"),
                 c0, f0, FALSE, FALSE, FALSE)
        ELSE IF DecodeFailed(inbuf)
        THEN Outcome(s1,
                 sspi_error_result_with_message(
                     "Unable to base64 decode challenge"),
                 c0, f0, FALSE, FALSE, FALSE)
        ELSE IF env.pkg # "ok"
        THEN Outcome(s1,
                 sspi_error_result_with_message(
                     "Unable to get max token size for output buffer"),
                 c0 \o << pkg >>,
                 f0 \o endIn \o (IF env.wild THEN << "wild" >> ELSE <<>>),
                 FALSE, FALSE, FALSE)
        ELSE IF ~env.out
        THEN Outcome(s1,
                 sspi_error_result_with_message(
                     "Unable to allocate memory for output buffer"),
                 c0 \o << pkg >>, f0 \o endIn, FALSE, FALSE, FALSE)
        ELSE IF env.status = "ok"
        THEN IF env.nstatus = "ok"
             THEN Outcome([s3 EXCEPT !.username = uname],
                      IF uname.null
                      THEN sspi_error_result_with_message(
                               "Unable to allocate memory for username")
                      ELSE sspi_success_result(AUTH_GSS_COMPLETE),
                      c1 \o << qca >>, f0 \o << "names" >> \o endAll,
                      newCtx, FALSE, FALSE)
             ELSE IF env.imp # "ok"
             THEN Outcome(s3,
                      sspi_error_result_with_message(
                          "Unable to obtain username"),
                      c1 \o << qca, isc >>, f0 \o endAll,
                      newCtx, FALSE, FALSE)
             ELSE IF ~env.ualloc
             THEN \* returns while still impersonating
                  Outcome([s3 EXCEPT !.username = NULL],
                      sspi_error_result_with_message(
                          "Unable to allocate memory for username"),
                      c1 \o << qca, isc, gun1 >>, f0 \o endAll,
                      newCtx, FALSE, TRUE)
             ELSE IF ~env.getuser
             THEN \* returns while still impersonating, the buffer unwritten
                  Outcome(sName,
                      sspi_error_result_with_message(
                          "Unable to obtain username"),
                      c1 \o << qca, isc, gun1, gun2 >>, f0 \o endAll,
                      newCtx, FALSE, TRUE)
             ELSE Outcome(sName, sspi_success_result(AUTH_GSS_COMPLETE),
                      c1 \o << qca, isc, gun1, gun2, rev >>, f0 \o endAll,
                      newCtx, FALSE, FALSE)
        ELSE IF env.status = "continue"
        THEN Outcome(s4,
                 IF resp.null
                 THEN sspi_error_result_with_message(
                          "Unable to base64 encode response message")
                 ELSE sspi_success_result(AUTH_GSS_CONTINUE),
                 c1, f0 \o endAll, newCtx, FALSE, FALSE)
        ELSE Outcome(IF s2.ctx THEN ServerDropCtx(s2) ELSE s2,
                 sspi_error_result("AcceptSecurityContext failed"),
                 c1 \o (IF s2.ctx THEN << del >> ELSE <<>>),
                 f0 \o endAll, FALSE, FALSE, FALSE),
        bufs)

(***************************************************************************)
(* auth_sspi_client_unwrap.                                                *)
(***************************************************************************)
\* dec, the decode buffer is obtained; status, plain and qop, the answer of
\* DecryptMessage; enc, the plaintext is encoded
UnwrapEnv(dec, status, plain, qop, enc) ==
    [dec |-> dec, status |-> status, plain |-> plain, qop |-> qop,
     enc |-> enc]

UnwrapEnvs ==
    { UnwrapEnv(FALSE, "fail", <<>>, 0, TRUE),
      UnwrapEnv(TRUE, "fail", <<>>, 0, TRUE) }
    \cup { UnwrapEnv(TRUE, "ok", SomeToken, q, FALSE) : q \in Qops }
    \cup { UnwrapEnv(TRUE, "ok", t, q, TRUE) : t \in RawTokens, q \in Qops }

\* lines 461-465: the old response is dropped, and the qop reset with it
UnwrapClear(st) ==
    IF ~st.response.null
    THEN [st EXCEPT !.response = NULL, !.qop = SECQOP_WRAP_NO_ENCRYPT]
    ELSE st

\* line 467 (and 529): there is no security context
NoContext(st) == ~st.haveCtx

auth_sspi_client_unwrap(st, challenge, env) ==
    LET f0 == IF ~st.response.null THEN << "response" >> ELSE <<>>
        s1 == UnwrapClear(st)
        inbuf == base64_decode(challenge, env.dec)
        dm == Call("DecryptMessage", TRUE, env.status, s1, s1.qop)
        \* DecryptMessage writes the qop when it succeeds
        s2 == [s1 EXCEPT !.qop = env.qop]
        resp == IF Len(env.plain) > 0 THEN base64_encode(env.plain, env.enc)
                ELSE NULL
        s3 == [s2 EXCEPT !.response = resp]
    IN  IF NoContext(s1)
        THEN Outcome(s1,
                 sspi_error_result_with_message(
                     "Uninitialized security context"),
                 <<>>, f0, FALSE, FALSE, FALSE)
        ELSE IF DecodeFailed(inbuf)
        THEN Outcome(s1,
                 sspi_error_result_with_message(
                     "Unable to decode base64 response"),
                 <<>>, f0, FALSE, FALSE, FALSE)
        ELSE IF env.status # "ok"
        THEN Outcome(s1, sspi_error_result("DecryptMessage"),
                 << dm >>, f0 \o << "challenge" >>, FALSE, FALSE, FALSE)
        ELSE IF Len(env.plain) > 0 /\ resp.null
        THEN Outcome(s3,
                 sspi_error_result_with_message(
                     "Unable to base64 encode decrypted message"),
                 << dm >>, f0 \o << "challenge" >>, FALSE, FALSE, FALSE)
        ELSE Outcome(s3, sspi_success_result(AUTH_GSS_COMPLETE),
                 << dm >>, f0 \o << "challenge" >>, FALSE, FALSE, FALSE)

(***************************************************************************)
(* auth_sspi_client_wrap.                                                  *)
(***************************************************************************)
\* buffer sizes QueryContextAttributes(SECPKG_ATTR_SIZES) can report
Sizes == { [cbSecurityTrailer |-> 2, cbBlockSize |-> 1] }

\* sstatus and sizes, the sizes query; dec, the data is decoded; inalloc,
\* the working buffer is obtained; status, EncryptMessage; outalloc, the
\* out buffer is obtained; enc, the out buffer is encoded
WrapEnv(sstatus, sizes, dec, inalloc, status, outalloc, enc) ==
    [sstatus |-> sstatus, sizes |-> sizes, dec |-> dec, inalloc |-> inalloc,
     status |-> status, outalloc |-> outalloc, enc |-> enc]

WrapEnvs ==
    { WrapEnv("fail", z, TRUE, TRUE, "fail", TRUE, TRUE) : z \in Sizes }
    \cup { WrapEnv("ok", z, FALSE, TRUE, "fail", TRUE, TRUE) : z \in Sizes }
    \cup { WrapEnv("ok", z, TRUE, FALSE, "fail", TRUE, TRUE) : z \in Sizes }
    \cup { WrapEnv("ok", z, TRUE, TRUE, "fail", TRUE, TRUE) : z \in Sizes }
    \cup { WrapEnv("ok", z, TRUE, TRUE, "ok", FALSE, TRUE) : z \in Sizes }
    \cup { WrapEnv("ok", z, TRUE, TRUE, "ok", TRUE, e) :
           z \in Sizes, e \in BOOLEAN }

\* what EncryptMessage leaves in the three buffers: a trailer and a padding
\* of the sizes asked for, and the data, transformed when confidentiality
\* is asked for
Trailer(sizes) == [i \in 1..sizes.cbSecurityTrailer |-> 200 + i]
Padding(sizes) == [i \in 1..sizes.cbBlockSize |-> 0]
Protected(plain, conf) ==
    IF conf THEN [i \in 1..Len(plain) |-> (plain[i] + 1) % 256] ELSE plain

\* lines 561-569: the security-layer header followed by the user
AuthzMessage(user) == << 1, 0, 0, 0 >> \o user

\* (mutant) confidentiality is always asked for
WrapConf_Always(protect) == TRUE

\* line 599: confidentiality is asked for exactly when protect is set
WrapConf(protect) == protect

\* lines 607-627: trailer, data and padding are put together
WrapOutbuf(bufs) == bufs[1] \o bufs[2] \o bufs[3]

auth_sspi_client_wrap(st, data, user, protect, env) ==
    LET f0 == IF ~st.response.null THEN << "response" >> ELSE <<>>
        s1 == ClearResponse(st)
        qca == Call("QueryContextAttributes", TRUE, env.sstatus, s1, s1.qop)
        authz == Len(user) > 0
        decodedData == IF authz THEN NULL ELSE base64_decode(data, env.dec)
        plain == IF authz THEN AuthzMessage(user) ELSE decodedData.val
        fData == IF ~decodedData.null THEN << "data" >> ELSE <<>>
        bufs == << Trailer(env.sizes), Protected(plain, WrapConf(protect)),
                   Padding(env.sizes) >>
        em == [Call("EncryptMessage", WrapConf(protect), env.status,
                    s1, s1.qop)
                 EXCEPT !.io = IF env.status = "ok" THEN << plain >> \o bufs
                               ELSE << plain >>]
        resp == base64_encode(WrapOutbuf(bufs), env.enc)
        s2 == [s1 EXCEPT !.response = resp]
    IN  IF NoContext(s1)
        THEN Outcome(s1,
                 sspi_error_result_with_message(
                     "Uninitialized security context"),
                 <<>>, f0, FALSE, FALSE, FALSE)
        ELSE IF env.sstatus # "ok"
        THEN Outcome(s1, sspi_error_result("QueryContextAttributes"),
                 << qca >>, f0, FALSE, FALSE, FALSE)
        ELSE IF ~authz /\ DecodeFailed(decodedData)
        THEN Outcome(s1,
                 sspi_error_result_with_message(
                     "Unable to base64 decode message"),
                 << qca >>, f0, FALSE, FALSE, FALSE)
        ELSE IF ~env.inalloc
        THEN Outcome(s1,
                 sspi_error_result_with_message(
                     "Unable to allocate memory for buffer"),
                 << qca >>, f0 \o fData, FALSE, FALSE, FALSE)
        ELSE IF env.status # "ok"
        THEN Outcome(s1, sspi_error_result("EncryptMessage"),
                 << qca, em >>, f0 \o fData \o << "inbuf" >>,
                 FALSE, FALSE, FALSE)
        ELSE IF ~env.outalloc
        THEN Outcome(s1,
                 sspi_error_result_with_message(
                     "Unable to allocate memory for out buffer"),
                 << qca, em >>, f0 \o fData \o << "inbuf" >>,
                 FALSE, FALSE, FALSE)
        ELSE Outcome(s2,
                 IF resp.null
                 THEN sspi_error_result_with_message(
                          "Unable to base64 decode outbuf")
                 ELSE sspi_success_result(AUTH_GSS_COMPLETE),
                 << qca, em >>, f0 \o fData \o << "inbuf", "outbuf" >>,
                 FALSE, FALSE, FALSE)

(***************************************************************************)
(* The state machine.  A behaviour follows one context object, a client or *)
(* a server one (side), from its construction through any sequence of     *)
(* calls of its handlers.  A call runs its handler to completion (the      *)
(* handlers are synchronous) and leaves what it did in op and pre; the     *)
(* caller then takes the result (Resume) before it calls again.            *)
(*   client, server  the context structures                                *)
(*   live            provider objects created through the context and not  *)
(*                   yet released (security contexts, credential handles)  *)
(*   imp             the calling thread is impersonating                   *)
(*   life            "new" after construction, "inited" from a first init  *)
(*                   on the new object, "off" after a release, a second    *)
(*                   init or a call that came before init                  *)
(*   last            the handler called last and the code it returned      *)
(*   pc              "idle", or "returned" while a result is being taken   *)
(*   op              the call that returned: handler, arguments, what the  *)
(*                   allocator and the provider answered (env), result,    *)
(*                   provider calls made, buffers obtained and released    *)
(*   pre             the context structure, live, life, imp and last as    *)
(*                   they were when op was entered                         *)
(***************************************************************************)
VARIABLES side, client, server, live, imp, life, last, pc, op, pre

vars == << side, client, server, live, imp, life, last, pc, op, pre >>

Services == {<< 72 >>}

NoArgs == [challenge |-> NULL]

\* wrap is called with a user and empty data (authorization mode) or with
\* no user and any data (pass-through mode)
WrapArgs ==
    { [data |-> Ptr(<<>>), user |-> u, protect |-> p] :
      u \in Strs \ {<<>>}, p \in BOOLEAN }
    \cup { [data |-> d, user |-> <<>>, protect |-> p] :
            d \in Texts, p \in BOOLEAN }
NoEnv == [none |-> TRUE]
NoOp == [name |-> "none", args |-> NoArgs, env |-> NoEnv, res |-> Void,
         calls |-> <<>>, frees |-> <<>>, got |-> <<>>]
NoPre == [st |-> NULL, live |-> [ctx |-> 0, cred |-> 0], life |-> "new",
          imp |-> FALSE, last |-> [name |-> "none", code |-> "VOID"]]

Init ==
    /\ side \in {"client", "server"}
    /\ client \in NewClientStates
    /\ side = "server" => client = NewClientZero
    /\ server = NewServerState
    /\ live = [ctx |-> 0, cred |-> 0]
    /\ imp = FALSE
    /\ life = "new"
    /\ last = [name |-> "new", code |-> "VOID"]
    /\ pc = "idle"
    /\ op = NoOp
    /\ pre = NoPre

\* the number of calls of fn in a call log
Count(calls, fn) == Cardinality({i \in 1..Len(calls) : calls[i].fn = fn})

Dec(n, k) == IF n >= k THEN n - k ELSE 0

\* the provider's objects after a handler ran
LiveAfter(o) ==
    [ctx |-> Dec(live.ctx + (IF o.newCtx THEN 1 ELSE 0),
                 Count(o.calls, "DeleteSecurityContext")),
     cred |-> Dec(live.cred + (IF o.newCred THEN 1 ELSE 0),
                  Count(o.calls, "FreeCredentialsHandle"))]

ImpAfter(o) ==
    IF o.imp THEN TRUE
    ELSE IF Count(o.calls, "RevertSecurityContext") > 0 THEN FALSE
    ELSE imp

\* what every call records
Record(name, args, env, o, lifeAfter) ==
    /\ live' = LiveAfter(o)
    /\ imp' = ImpAfter(o)
    /\ life' = lifeAfter
    /\ last' = [name |-> name, code |-> o.res.code]
    /\ pc' = "returned"
    /\ op' = [name |-> name, args |-> args, env |-> env, res |-> o.res,
              calls |-> o.calls, frees |-> o.frees, got |-> o.got]
    /\ pre' = [st |-> IF side = "client" THEN client ELSE server,
               live |-> live, life |-> life, imp |-> imp, last |-> last]
    /\ UNCHANGED side

\* life after a step, wrap or unwrap: still "inited" when init came first
Used(l) == IF l = "inited" THEN "inited" ELSE "off"

ClientInit ==
    /\ side = "client" /\ pc = "idle"
    /\ live.ctx < MaxLive /\ live.cred < MaxLive
    /\ \E service \in Services, flags \in FlagSet, user \in Strs,
          domain \in Strs, password \in Strs, env \in ClientInitEnvs :
          LET o == auth_sspi_client_init(client, service, flags, user,
                                         domain, password, env)
          IN  /\ client' = o.st
              /\ Record("client_init",
                        [service |-> service, flags |-> flags, user |-> user,
                         domain |-> domain, password |-> password],
                        env, o, IF life = "new" THEN "inited" ELSE "off")
    /\ UNCHANGED server

ClientStep ==
    /\ side = "client" /\ pc = "idle"
    /\ \E challenge \in Texts, env \in ClientStepEnvs :
          LET o == auth_sspi_client_step(client, challenge, env)
          IN  /\ client' = o.st
              /\ Record("client_step", [challenge |-> challenge], env, o,
                        Used(life))
    /\ UNCHANGED server

ClientUnwrap ==
    /\ side = "client" /\ pc = "idle"
    /\ \E challenge \in Texts, env \in UnwrapEnvs :
          LET o == auth_sspi_client_unwrap(client, challenge, env)
          IN  /\ client' = o.st
              /\ Record("client_unwrap", [challenge |-> challenge], env, o,
                        Used(life))
    /\ UNCHANGED server

ClientWrap ==
    /\ side = "client" /\ pc = "idle"
    /\ \E a \in WrapArgs, env \in WrapEnvs :
          LET o == auth_sspi_client_wrap(client, a.data, a.user, a.protect,
                                         env)
          IN  /\ client' = o.st
              /\ Record("client_wrap", a, env, o, Used(life))
    /\ UNCHANGED server

ClientClean ==
    /\ side = "client" /\ pc = "idle"
    /\ LET o == auth_sspi_client_clean(client)
       IN  /\ client' = o.st
           /\ Record("client_clean", NoArgs, NoEnv, o, "off")
    /\ UNCHANGED server

ServerInit ==
    /\ side = "server" /\ pc = "idle"
    /\ \E service \in Services, env \in ServerInitEnvs :
          LET o == auth_sspi_server_init(server, service, env)
          IN  /\ server' = o.st
              /\ Record("server_init", [service |-> service], env, o,
                        IF life = "new" THEN "inited" ELSE "off")
    /\ UNCHANGED client

ServerStep ==
    /\ side = "server" /\ pc = "idle"
    /\ \E challenge \in Texts, env \in ServerStepEnvs :
          LET o == auth_sspi_server_step(server, challenge, env)
          IN  /\ server' = o.st
              /\ Record("server_step", [challenge |-> challenge], env, o,
                        Used(life))
    /\ UNCHANGED client

ServerClean ==
    /\ side = "server" /\ pc = "idle"
    /\ LET o == auth_sspi_server_clean(server)
       IN  /\ server' = o.st
           /\ Record("server_clean", NoArgs, NoEnv, o, "off")
    /\ UNCHANGED client

\* the caller has taken the result and may call again
Resume ==
    /\ pc = "returned"
    /\ pc' = "idle"
    /\ op' = NoOp
    /\ pre' = NoPre
    /\ UNCHANGED << side, client, server, live, imp, life, last >>

Next ==
    \/ ClientInit
    \/ ClientStep
    \/ ClientUnwrap
    \/ ClientWrap
    \/ ClientClean
    \/ ServerInit
    \/ ServerStep
    \/ ServerClean
    \/ Resume

Spec == Init /\ [][Next]_vars

(***************************************************************************)
(* Properties.                                                             *)
(***************************************************************************)
Returned == pc = "returned"
Ctx == IF side = "client" THEN client ELSE server
IsError(r) == r.code = AUTH_GSS_ERROR /\ ~r.message.null
Cleans == {"client_clean", "server_clean"}
Steps == {"client_step", "server_step"}
Inits == {"client_init", "server_init"}
Made(fn) == \E i \in 1..Len(op.calls) : op.calls[i].fn = fn
Answered(fn, r) ==
    \E i \in 1..Len(op.calls) : op.calls[i].fn = fn /\ op.calls[i].r = r

\* the structure holds no handle, token or principal
Cleared ==
    /\ Ctx.response.null /\ Ctx.username.null
    /\ side = "client" => ~client.haveCtx /\ ~client.haveCred /\ client.spn.null
    /\ side = "server" => ~server.ctx /\ ~server.cred /\ server.targetname.null

\* C1: a release called right after a release, on a client or on a server
\* context in any state, makes no provider call and frees nothing, and
\* leaves the context as the first release left it.
C1_ReleaseIdempotent ==
    (Returned /\ op.name \in Cleans /\ pre.last.name = op.name)
        => /\ op.calls = <<>>
           /\ op.frees = <<>>
           /\ Ctx = pre.st
           /\ live = pre.live

\* a second release of a client context that init, a completed step and a
\* first release went through
C1_Witness ==
    /\ Returned /\ op.name = "client_clean" /\ pre.last.name = "client_clean"
    /\ client.context_complete /\ client.flags \in FlagSet

\* C2: after init and any steps, wraps and unwraps with any provider
\* outcomes, release deletes the security context once if and only if one
\* is held, frees the credential handle once if and only if one is held,
\* and leaves the context holding no handle, token or principal.
C2_ReleaseAfterAnything ==
    (Returned /\ op.name \in Cleans /\ pre.life = "inited")
        => /\ pre.live.ctx <= 1 /\ pre.live.cred <= 1
           /\ Count(op.calls, "DeleteSecurityContext") = pre.live.ctx
           /\ Count(op.calls, "FreeCredentialsHandle") = pre.live.cred
           /\ Len(op.calls) = pre.live.ctx + pre.live.cred
           /\ live = [ctx |-> 0, cred |-> 0]
           /\ Cleared

\* a release of a server context whose last step failed in the provider
\* while a credential was held
C2_Witness ==
    /\ Returned /\ op.name = "server_clean" /\ pre.life = "inited"
    /\ pre.last = [name |-> "server_step", code |-> AUTH_GSS_ERROR]
    /\ pre.live.cred = 1
    /\ Made("FreeCredentialsHandle")

\* C3: a step with a non-empty challenge on a server context whose complete
\* flag is set deletes the previous security context first, and the calls
\* it then makes to the provider to negotiate find the flag cleared, no
\* principal, and (the accept call) no existing context.
C3_ServerResetBeforeProvider ==
    (Returned /\ op.name = "server_step" /\ pre.st.context_complete
        /\ HasChallenge(op.args.challenge))
        => /\ pre.st.ctx =>
                 Len(op.calls) >= 1 /\ op.calls[1].fn = "DeleteSecurityContext"
           /\ \A i \in 1..Len(op.calls) :
                 /\ op.calls[i].fn \in {"QuerySecurityPackageInfoW",
                                        "AcceptSecurityContext"}
                        => ~op.calls[i].cplt /\ ~op.calls[i].usr
                 /\ op.calls[i].fn = "AcceptSecurityContext"
                        => ~op.calls[i].a

\* a completed server context with a principal is stepped again and the
\* provider's accept call is reached
C3_Witness ==
    /\ Returned /\ op.name = "server_step"
    /\ pre.st.context_complete /\ pre.st.ctx /\ ~pre.st.username.null
    /\ Made("AcceptSecurityContext")

\* C4 (as claimed): wrap and unwrap on a client context through which no
\* security context was established return an Error result and make no
\* provider call.
C4_NoContextIsError ==
    (Returned /\ op.name \in {"client_wrap", "client_unwrap"}
        /\ pre.live.ctx = 0)
        => IsError(op.res) /\ op.calls = <<>>

\* C5 (as claimed): a server step without a challenge (absent or empty)
\* returns an Error result and makes no provider call, in every state.
C5_NoChallengeNoCall ==
    (Returned /\ op.name = "server_step" /\ ~HasChallenge(op.args.challenge))
        => IsError(op.res) /\ op.calls = <<>>

\* the calls a step makes to the provider before it looks at its challenge:
\* the release of the security context of a completed exchange, if any
ResetCalls ==
    IF op.name = "server_step" /\ pre.st.context_complete /\ pre.st.ctx
    THEN << "DeleteSecurityContext" >> ELSE <<>>
CallNames == [i \in 1..Len(op.calls) |-> op.calls[i].fn]

\* C5 (amended): a server step without a challenge returns an Error result
\* and makes no provider call but the release of the security context of a
\* previously completed exchange.
C5_NoChallengeNoNegotiation ==
    (Returned /\ op.name = "server_step"
        /\ op.args.challenge \in {NULL, Ptr(<<>>)})
        => IsError(op.res) /\ CallNames = ResetCalls

\* a server step without a challenge on a completed context
C5_Witness ==
    /\ Returned /\ op.name = "server_step"
    /\ op.args.challenge = Ptr(<<>>)
    /\ pre.st.context_complete /\ pre.st.ctx

\* C6 (as claimed): a step with a malformed challenge returns an Error
\* result and makes no provider call, on either side and in every state of
\* a context that was initialised with success (the client's first step
\* included).
C6_MalformedNoCall ==
    (Returned /\ op.name \in Steps /\ op.args.challenge \in BadTexts
        /\ pre.life = "inited" /\ pre.live.cred = 1)
        => IsError(op.res) /\ op.calls = <<>>

\* C6 (amended): a step with a malformed challenge returns an Error result
\* without negotiating with the provider, on the server in every state (it
\* only releases the security context of a completed exchange) and on the
\* client whenever the context already holds a security context.
C6_MalformedNoNegotiation ==
    (Returned /\ op.name \in Steps /\ op.args.challenge \in BadTexts
        /\ (op.name = "client_step" => pre.st.haveCtx))
        => IsError(op.res) /\ CallNames = ResetCalls

\* a client step with a malformed challenge on a context that a first step
\* established
C6_Witness ==
    /\ Returned /\ op.name = "client_step" /\ op.args.challenge \in BadTexts
    /\ pre.st.haveCtx /\ pre.live.ctx = 1 /\ pre.life = "inited"

\* C7 (as claimed): a step on a context that holds no credential handle
\* returns an Error result before any provider call is made.
C7_StepWithoutCredential ==
    (Returned /\ op.name \in Steps /\ pre.live.cred = 0)
        => IsError(op.res) /\ op.calls = <<>>

\* C8: init returns a success result exactly when the provider's credential
\* acquisition answered ok; after a success the context holds a credential
\* handle, after an Error it holds neither a credential handle nor a
\* security context.
C8_InitOutcome ==
    (Returned /\ op.name \in Inits)
        => /\ op.res.code \in {AUTH_GSS_COMPLETE, AUTH_GSS_ERROR}
           /\ op.res.code = AUTH_GSS_COMPLETE
                  <=> Answered("AcquireCredentialsHandleW", "ok")
           /\ op.res.code = AUTH_GSS_COMPLETE =>
                  /\ live.cred >= 1
                  /\ IF side = "client" THEN client.haveCred ELSE server.cred
           /\ op.res.code = AUTH_GSS_ERROR =>
                  /\ IsError(op.res)
                  /\ IF side = "client"
                     THEN ~client.haveCred /\ ~client.haveCtx
                     ELSE ~server.cred /\ ~server.ctx

\* a server init that fails on a context that held a credential handle and
\* a security context
C8_Witness ==
    /\ Returned /\ op.name = "server_init" /\ IsError(op.res)
    /\ pre.st.cred /\ pre.st.ctx

\* C9 (as claimed): after a client step (on a context initialised with
\* success) in which the provider answers continue, the result is Continue
\* and the complete flag is false.
C9_ContinueIsIncomplete ==
    (Returned /\ op.name = "client_step"
        /\ pre.life = "inited" /\ pre.live.cred = 1
        /\ Answered("InitializeSecurityContextW", "continue"))
        => op.res.code = AUTH_GSS_CONTINUE /\ ~client.context_complete

\* C10 (as claimed): in every state of a context that was initialised with
\* success, if the complete flag is set then the authenticated principal is
\* present.
C10_CompleteHasPrincipal ==
    (life = "inited" /\ live.cred = 1)
        => /\ client.context_complete => ~client.username.null
           /\ server.context_complete => ~server.username.null

\* the context went through a first init that acquired a credential
Scripted == pre.life = "inited" /\ pre.live.cred = 1

\* C11 (as claimed): when a step, a wrap or an unwrap (on a context that was
\* initialised with success) returns an Error result, the context holds no
\* response.
C11_ErrorHasNoResponse ==
    (Returned /\ op.name \in Steps \cup {"client_wrap", "client_unwrap"}
        /\ Scripted /\ IsError(op.res))
        => Ctx.response.null

\* C12 (as claimed): every init, and every step, wrap and unwrap on a
\* context that was initialised with success, returns on every exit path a
\* result whose code is Complete, Continue or Error and that carries a
\* message if and only if the code is Error; whenever the handler failed to
\* encode a token it had to return, the result is an Error.
C12_ResultWellDefined ==
    (Returned /\ (op.name \in Inits \/ (op.name \notin Cleans /\ Scripted)))
        => /\ op.res.code \in {AUTH_GSS_COMPLETE, AUTH_GSS_CONTINUE,
                                AUTH_GSS_ERROR}
           /\ ~op.res.message.null <=> op.res.code = AUTH_GSS_ERROR
           /\ (op.name \in Steps /\ Len(op.env.tok) > 0 /\ ~op.env.enc
                  /\ Len(op.calls) > 0
                  /\ op.calls[Len(op.calls)].r \in {"ok", "continue"})
                 => IsError(op.res)

\* the call by which a step negotiates with the provider
Negotiation ==
    IF op.name = "client_step" THEN "InitializeSecurityContextW"
    ELSE "AcceptSecurityContext"

WrapPlain ==
    IF Len(op.args.user) > 0 THEN << 1, 0, 0, 0 >> \o op.args.user
    ELSE StringToBinary(op.args.data.val)

C15_UnwrapResetsQop ==
    (Returned /\ op.name = "client_unwrap" /\ Scripted)
        => \A i \in 1..Len(op.calls) :
               op.calls[i].fn = "DecryptMessage"
                   => op.calls[i].qop = SECQOP_WRAP_NO_ENCRYPT

\* how many times a buffer is in a list of buffers
Times(bufs, b) == Cardinality({i \in 1..Len(bufs) : bufs[i] = b})

\* the token an operation computed for the caller to send
Produced ==
    IF op.name \in Steps THEN Ptr(BinaryToString(op.env.tok))
    ELSE IF op.name = "client_unwrap" THEN Ptr(BinaryToString(op.env.plain))
    ELSE LET io == op.calls[Len(op.calls)].io
         IN  Ptr(BinaryToString(io[2] \o io[3] \o io[4]))

\* C16: every step, wrap and unwrap, in every state, releases the response
\* the context held before it validates, decodes or calls the provider: the
\* old response is freed once, no provider call finds a response in the
\* context but the client step's name query (made after the new token is
\* stored), an operation that returns before any provider call leaves no
\* response, and the response after the operation is absent or the token
\* that operation computed.
C16_ResponseClearedFirst ==
    (Returned /\ op.name \in Steps \cup {"client_wrap", "client_unwrap"})
        => /\ Times(op.frees, "response")
                 = (IF pre.st.response.null THEN 0 ELSE 1)
           /\ \A i \in 1..Len(op.calls) :
                 op.calls[i].rsp
                     => /\ op.name = "client_step"
                        /\ op.calls[i].fn = "QueryContextAttributesW"
           /\ op.calls = <<>> => Ctx.response.null
           /\ ~Ctx.response.null => Ctx.response = Produced

\* a server step with a malformed challenge on a context that holds the
\* response of the step before
C16_Witness ==
    /\ Returned /\ op.name = "server_step" /\ Scripted
    /\ ~pre.st.response.null /\ op.args.challenge \in BadTexts
    /\ op.frees = << "response" >> /\ server.response.null

\* C17 (as claimed): a server step (on a context that was initialised with
\* success) that impersonates the accepted context to read the local name
\* reverts the impersonation on every exit path, and returns an Error
\* result when neither name path gives a name.
C17_ImpersonationReverted ==
    (Returned /\ op.name = "server_step" /\ Scripted /\ ~pre.imp)
        => /\ ~imp
           /\ Answered("ImpersonateSecurityContext", "ok")
                 => Made("RevertSecurityContext")
           /\ (Answered("AcceptSecurityContext", "ok")
                  /\ server.username.null) => IsError(op.res)

\* the buffers a step obtains for its own use, and a pointer it never
\* obtained
StepBuffers == {"challenge", "outbuf", "names", "pkginfo", "wild"}

\* C18 (as claimed): every step (on a context that was initialised with
\* success) releases, exactly once and on every exit path, each buffer it
\* obtained during the step, and frees no buffer it did not obtain.
C18_StepBuffersReleased ==
    (Returned /\ op.name \in Steps /\ Scripted)
        => \A b \in StepBuffers : Times(op.frees, b) = Times(op.got, b)

\* C19: a server step in which the provider's accept call answers neither
\* ok nor continue returns an Error result with the provider's message,
\* deletes the security context it held (last call of the step) and leaves
\* the context with no security context and complete false; and an accept
\* call is given an existing context only when the context held one, so
\* the step after such a failure gives it none.
C19_AcceptFailureDropsContext ==
    (Returned /\ op.name = "server_step")
        => /\ Answered("AcceptSecurityContext", "fail")
                 => /\ op.res
                          = sspi_error_result("AcceptSecurityContext failed")
                    /\ IsError(op.res)
                    /\ ~server.ctx /\ live.ctx = 0
                    /\ ~server.context_complete
                    /\ (pre.st.ctx /\ ~pre.st.context_complete)
                          => op.calls[Len(op.calls)].fn
                                 = "DeleteSecurityContext"
           /\ \A i \in 1..Len(op.calls) :
                 (op.calls[i].fn = "AcceptSecurityContext" /\ op.calls[i].a)
                     => pre.st.ctx /\ ~pre.st.context_complete

\* the accept call fails in the step that follows a Continue, on a context
\* that holds the security context of the exchange
C19_Witness ==
    /\ Returned /\ op.name = "server_step" /\ Scripted
    /\ pre.last = [name |-> "server_step", code |-> AUTH_GSS_CONTINUE]
    /\ pre.st.ctx /\ pre.live.ctx = 1
    /\ Answered("AcceptSecurityContext", "fail")
    /\ Made("DeleteSecurityContext")

\* the identity a client init has to hand to the provider: none without a
\* user, else the user with an empty password or domain absent
Identity ==
    IF Len(op.args.user) = 0 THEN NULL
    ELSE Ptr([User |-> Ptr(op.args.user),
              Password |-> IF Len(op.args.password) > 0
                           THEN Ptr(op.args.password) ELSE NULL,
              Domain |-> IF Len(op.args.domain) > 0
                         THEN Ptr(op.args.domain) ELSE NULL])

\* C20 (as claimed): the credential acquisition of a client init is given no
\* identity when user is empty, and else an identity whose password and
\* domain are absent when they are empty.
C20_IdentityDefined ==
    (Returned /\ op.name = "client_init")
        => \A i \in 1..Len(op.calls) :
               op.calls[i].fn = "AcquireCredentialsHandleW"
                   => op.calls[i].io = << Identity >>

\* C21 (as claimed): an operation on one context (initialised with success)
\* leaves the other context as it was, and leaves nothing changed outside
\* the contexts: the calling thread impersonates after the operation if and
\* only if it did before.
C21_NothingOutsideChanged ==
    (Returned /\ Scripted)
        => /\ side = "client" => server = NewServerState
           /\ side = "server" => client = NewClientZero
           /\ imp = pre.imp

\* C22 (as claimed): a release of a context that was constructed and on
\* which nothing else was called makes no provider call.
C22_FreshReleaseCallsNothing ==
    (Returned /\ op.name \in Cleans /\ pre.life = "new")
        => op.calls = <<>>

\* the fields of the client context that own a buffer
Owned == {"spn", "response", "username"}

\* the fields of the client context an operation assigns without looking at
\* what they hold: all of them in init, the principal in a step where the
\* name query answers
Assigned ==
    IF op.name = "client_init" THEN Owned
    ELSE IF op.name = "client_step"
              /\ Answered("QueryContextAttributesW", "ok")
    THEN {"username"} ELSE {}

\* C23 (as claimed): no client operation assigns a field that owns a buffer
\* without freeing the buffer, nor acquires a credential handle or a
\* security context while it holds one it did not release, and after a
\* release no provider object acquired through the context is left.
C23_NothingOverwritten ==
    (Returned /\ side = "client")
        => /\ \A f \in Assigned :
                 ~pre.st[f].null => Times(op.frees, f) = 1
           /\ live.ctx <= 1 /\ live.cred <= 1
           /\ op.name = "client_clean" => live = [ctx |-> 0, cred |-> 0]

\* C24: a client step, in any state, in which the provider's initiate call
\* answers neither ok nor continue returns an Error result and changes
\* nothing in the context but the response, which it clears: the
\* has-context flag, the complete flag, the principal, the credential flag,
\* the target name and the flags stay, and a security context held before
\* is neither deleted nor dropped.
C24_InitiateFailureFrame ==
    (Returned /\ op.name = "client_step"
        /\ Answered("InitializeSecurityContextW", "fail"))
        => /\ IsError(op.res)
           /\ client = [pre.st EXCEPT !.response = NULL]
           /\ live = pre.live
           /\ ~Made("DeleteSecurityContext")
           /\ Len(op.calls) = 1

\* the initiate call fails on a completed client context that holds a
\* security context, a principal and a response
C24_Witness ==
    /\ Returned /\ op.name = "client_step" /\ Scripted
    /\ Answered("InitializeSecurityContextW", "fail")
    /\ pre.st.haveCtx /\ pre.live.ctx = 1 /\ pre.st.context_complete
    /\ ~pre.st.username.null /\ ~pre.st.response.null
    /\ client.haveCtx /\ client.response.null

====
